---- MODULE Spec2Model ----
(***************************************************************************)
(* Model of bot/cogs/error_handler.py: the ErrorHandler cog's              *)
(* on_command_error listener and handle_unexpected_error.                  *)
(*                                                                         *)
(* One dispatch of the listener is followed step by step.  Every await     *)
(* and every call into a collaborator (the command registry, the Tags cog, *)
(* the context's send/invoke, the logger) is recorded in `effects`, in the *)
(* order the code performs them.  Nested calls of on_command_error are     *)
(* frames of `stack`.                                                      *)
(*                                                                         *)
(* Collaborators are assumed to behave as their interfaces say: ctx.send,  *)
(* ctx.invoke, response.json() and the logger complete without raising;    *)
(* can_run, when awaited, returns a boolean or raises a CommandError.      *)
(***************************************************************************)
EXTENDS Integers, Sequences, FiniteSets, TLC

VARIABLES bot, ctx, err, stack, effects, similar, outcome, raised, unexpected, marked

vars == <<bot, ctx, err, stack, effects, similar, outcome, raised, unexpected, marked>>

\* Deepest nesting of on_command_error frames the model explores.
MaxDepth == 3

(***************************************************************************)
(* Exception classes.                                                      *)
(***************************************************************************)

\* bot.decorators.InChannelCheckFailure derives from CheckFailure.
InChannelCheckFailureBase == "CheckFailure"

\* The direct base class of each exception class the handler imports.
Parent(c) ==
    CASE c = "BadArgument"           -> "UserInputError"
      [] c = "UserInputError"        -> "CommandError"
      [] c = "NoPrivateMessage"      -> "CheckFailure"
      [] c = "BotMissingPermissions" -> "CheckFailure"
      [] c = "MissingPermissions"    -> "CheckFailure"
      [] c = "InChannelCheckFailure" -> InChannelCheckFailureBase
      [] c = "CheckFailure"          -> "CommandError"
      [] c = "CommandNotFound"       -> "CommandError"
      [] c = "CommandOnCooldown"     -> "CommandError"
      [] c = "DisabledCommand"       -> "CommandError"
      [] c = "CommandInvokeError"    -> "CommandError"
      [] c = "Other"                 -> "CommandError"
      [] c = "CommandError"          -> "Exception"
      [] OTHER                       -> "Exception"

RECURSIVE IsInstance(_, _)
\* isinstance(e, t) for an error of class c.
IsInstance(c, t) ==
    IF c = t THEN TRUE
    ELSE IF c = "Exception" THEN FALSE
    ELSE IsInstance(Parent(c), t)

\* The error classes on_command_error can be given.
ErrorClasses ==
    {"CommandNotFound", "BadArgument", "UserInputError", "NoPrivateMessage",
     "BotMissingPermissions", "MissingPermissions", "InChannelCheckFailure",
     "CheckFailure", "CommandOnCooldown", "DisabledCommand",
     "CommandInvokeError", "Other"}

\* HTTP statuses of e.original.response.status the model draws from.
Statuses == {200, 399, 400, 401, 404, 499, 500, 503, 599, 600}

\* An exception object: its class, whether it has a `handled` attribute,
\* and for a CommandInvokeError the class of e.original and the status of
\* e.original.response (0 when there is no response).
MkError(c, h, o, s) == [cls |-> c, handled |-> h, orig |-> o, status |-> s]

NoError == MkError("none", FALSE, "none", 0)

\* Every error the framework (or a failed check) can hand to the listener.
Errors ==
    { MkError(c, h, "none", 0) : c \in ErrorClasses \ {"CommandInvokeError"}, h \in BOOLEAN }
    \cup { MkError("CommandInvokeError", h, "RuntimeError", 0) : h \in BOOLEAN }
    \cup { MkError("CommandInvokeError", h, "ResponseCodeError", s) : h \in BOOLEAN, s \in Statuses }

\* e.original of a CommandInvokeError.
Original(e) == MkError(e.orig, FALSE, "none", e.status)

(***************************************************************************)
(* Recorded effects.                                                       *)
(***************************************************************************)

Send(what, arg)  == [kind |-> "send",   what |-> what, level |-> "",    arg |-> arg]
Log(level, what) == [kind |-> "log",    what |-> what, level |-> level, arg |-> 0]
Invoke(nargs)    == [kind |-> "invoke", what |-> "help", level |-> "",  arg |-> nargs]
Call(what, arg)  == [kind |-> "call",   what |-> what, level |-> "",    arg |-> arg]

\* Length of the help_command tuple built from ctx.command and its parent.
HelpCommand(cmd) ==
    IF cmd = "child" THEN 3
    ELSE IF cmd = "plain" THEN 2
    ELSE 1

(***************************************************************************)
(* The decision table of on_command_error.                                 *)
(***************************************************************************)

\* BranchOrder with the generic branches tested before the specific ones.
BranchOrder_GenericFirst ==
    <<"UserInputError", "BadArgument", "CheckFailure", "CommandOnCooldown",
      "DisabledCommand", "NoPrivateMessage", "BotMissingPermissions",
      "MissingPermissions", "InChannelCheckFailure", "CommandInvokeError">>

\* The classes tested by the elif chain, in the order the code tests them.
BranchOrder ==
    <<"BadArgument", "UserInputError", "NoPrivateMessage",
      "BotMissingPermissions", "MissingPermissions", "InChannelCheckFailure",
      "CheckFailure", "CommandOnCooldown", "DisabledCommand",
      "CommandInvokeError">>

RECURSIVE FirstMatch(_, _, _)
\* The first class of `order`, from position i on, that e is an instance of;
\* "else" when there is none.
FirstMatch(c, order, i) ==
    IF i > Len(order) THEN "else"
    ELSE IF IsInstance(c, order[i]) THEN order[i]
    ELSE FirstMatch(c, order, i + 1)

\* InVerification without the channel test.
InVerification_Never(c) == FALSE

\* ctx.channel.id == Channels.verification
InVerification(c) == c.channel = "verification"

\* Branch with the `handled` test placed after the CommandNotFound test.
Branch_HandledLate(e, c) ==
    IF IsInstance(e.cls, "CommandNotFound") /\ ~c.marker THEN "fallback"
    ELSE IF e.handled THEN "handled"
    ELSE FirstMatch(e.cls, BranchOrder, 1)

\* The branch of on_command_error an error takes on a context.
Branch(e, c) ==
    IF e.handled THEN "handled"
    ELSE IF IsInstance(e.cls, "CommandNotFound") /\ ~c.marker THEN "fallback"
    ELSE FirstMatch(e.cls, BranchOrder, 1)

\* StatusClass with the server-error range closed at 600.
StatusClass_Upto600(s) ==
    IF s = 404 THEN "not_found"
    ELSE IF s = 400 THEN "bad_request"
    ELSE IF 500 <= s /\ s <= 600 THEN "server_error"
    ELSE "unexpected_status"

\* The branch on the numeric status of an API response error.
StatusClass(s) ==
    IF s = 404 THEN "not_found"
    ELSE IF s = 400 THEN "bad_request"
    ELSE IF 500 <= s /\ s < 600 THEN "server_error"
    ELSE "unexpected_status"

\* What the CommandInvokeError branch does for a ResponseCodeError.
ApiEffects(s) ==
    CASE StatusClass(s) = "not_found" ->
            <<Send("nothing_matching_query", 0)>>
      [] StatusClass(s) = "bad_request" ->
            <<Log("debug", "api_400_body"), Send("request_malformed", 0)>>
      [] StatusClass(s) = "server_error" ->
            <<Send("api_internal_issue", 0), Log("warning", "api_status")>>
      [] OTHER ->
            <<Send("unexpected_status_code", s), Log("warning", "unexpected_api_response")>>

\* What each typed branch of the elif chain does, in order.
TypedEffects(b, e, c) ==
    CASE b = "BadArgument" ->
            <<Send("bad_argument", 0), Invoke(HelpCommand(c.cmd))>>
      [] b = "UserInputError" ->
            <<Send("check_arguments", 0), Invoke(HelpCommand(c.cmd)),
              Log("debug", "command_error")>>
      [] b = "NoPrivateMessage" ->
            <<Send("no_private_message", 0)>>
      [] b = "BotMissingPermissions" ->
            <<Send("bot_missing_permissions", 0), Log("warning", "bot_missing_permissions")>>
      [] b = "MissingPermissions" ->
            <<Log("debug", "missing_permissions")>>
      [] b = "InChannelCheckFailure" ->
            <<Send("error_text", 0)>>
      [] b \in {"CheckFailure", "CommandOnCooldown", "DisabledCommand"} ->
            <<Log("debug", "command_error")>>
      [] b = "CommandInvokeError" ->
            ApiEffects(e.status)
      [] OTHER -> <<>>

\* IsUnexpected without the final `else`.
IsUnexpected_NoElse(e, c) ==
    Branch(e, c) = "CommandInvokeError" /\ e.orig # "ResponseCodeError"

\* Whether the elif chain hands the error to handle_unexpected_error.
IsUnexpected(e, c) ==
    \/ Branch(e, c) = "else"
    \/ Branch(e, c) = "CommandInvokeError" /\ e.orig # "ResponseCodeError"

\* UnexpectedTarget without the unwrapping of e.original.
UnexpectedTarget_Wrapper(e) == e

\* The error handed to handle_unexpected_error.
UnexpectedTarget(e) ==
    IF IsInstance(e.cls, "CommandInvokeError") THEN Original(e) ELSE e

\* What handle_unexpected_error does before it raises.
UnexpectedEffects ==
    <<Send("unexpected_error", 0), Log("error", "error_executing_command")>>

\* EnterFallback without the marker assignment.
EnterFallback_NoMarker(c) == c

\* ctx.invoked_from_error_handler = True
EnterFallback(c) == [c EXCEPT !.marker = TRUE]

\* The value of the expression `cmd.can_run(ctx)`: the check's result when
\* the coroutine is awaited, the coroutine object itself when it is not.
CanRunValue(awaited, result) == IF awaited THEN result ELSE "coroutine"

\* Python truth of such a value.
Truthy(v) == v \in {"true", "coroutine"}

(***************************************************************************)
(* State.                                                                  *)
(***************************************************************************)

Contexts ==
    [channel : {"verification", "other"}, marker : BOOLEAN,
     cmd : {"none", "plain", "child"}]

NoContext == [channel |-> "none", marker |-> FALSE, cmd |-> "none"]

NoSimilar == [found |-> FALSE, canRun |-> "none"]

CheckResults == {"true", "false", "raise"}

Frame(p, e) == [pc |-> p, e |-> e]

Top == stack[Len(stack)]

At(p) == outcome = "running" /\ Len(stack) > 0 /\ Top.pc = p

Init ==
    /\ bot \in [tagsCog : BOOLEAN, tagsGet : BOOLEAN]
    /\ ctx = NoContext
    /\ err = NoError
    /\ stack = <<>>
    /\ effects = <<>>
    /\ similar = NoSimilar
    /\ outcome = "idle"
    /\ raised = NoError
    /\ unexpected = FALSE
    /\ marked = FALSE

\* `return`: the top frame ends; the dispatch ends with the last frame.
Return ==
    /\ stack' = SubSeq(stack, 1, Len(stack) - 1)
    /\ outcome' = IF Len(stack) = 1 THEN "returned" ELSE outcome
    /\ raised' = raised

\* An exception no frame catches: it unwinds every frame to the caller.
Raise(x) ==
    /\ stack' = <<>>
    /\ outcome' = "raised"
    /\ raised' = x

Goto(p) ==
    /\ stack' = [stack EXCEPT ![Len(stack)].pc = p]
    /\ UNCHANGED <<outcome, raised>>

\* `await self.on_command_error(ctx, e2)` from inside an except clause.
Recurse(after, e2) ==
    /\ Len(stack) < MaxDepth
    /\ stack' = Append([stack EXCEPT ![Len(stack)].pc = after], Frame("entry", e2))
    /\ UNCHANGED <<outcome, raised>>

Builtin(name) == MkError(name, FALSE, "none", 0)

(***************************************************************************)
(* Actions.                                                                *)
(***************************************************************************)

\* The framework calls on_command_error(ctx, e) for a failed command.
Dispatch ==
    /\ outcome = "idle"
    /\ \E c \in Contexts, e \in Errors :
          /\ ctx' = c
          /\ err' = e
          /\ stack' = <<Frame("entry", e)>>
    /\ outcome' = "running"
    /\ UNCHANGED <<bot, effects, similar, raised, unexpected, marked>>

\* The error carries `handled`: trace log, return.
AlreadyHandled ==
    /\ At("entry")
    /\ Branch(Top.e, ctx) = "handled"
    /\ effects' = Append(effects, Log("trace", "handled_locally"))
    /\ Return
    /\ UNCHANGED <<bot, ctx, err, similar, unexpected, marked>>

\* CommandNotFound on an unmarked context in the verification channel:
\* the outer `if` is entered, its body skipped, and the function ends.
FallbackSkipped ==
    /\ At("entry")
    /\ Branch(Top.e, ctx) = "fallback"
    /\ InVerification(ctx)
    /\ Return
    /\ UNCHANGED <<bot, ctx, err, effects, similar, unexpected, marked>>

\* CommandNotFound on an unmarked context elsewhere: look the Tags cog and
\* the "tags get" command up; return when neither exists, otherwise mark
\* the context and go on to the permission check.
FallbackLookup ==
    /\ At("entry")
    /\ Branch(Top.e, ctx) = "fallback"
    /\ ~InVerification(ctx)
    /\ IF ~bot.tagsCog /\ ~bot.tagsGet
          THEN /\ Return
               /\ UNCHANGED <<ctx, marked>>
          ELSE /\ ctx' = EnterFallback(ctx)
               /\ marked' = TRUE
               /\ Goto("tag_check")
    /\ UNCHANGED <<bot, err, effects, similar, unexpected>>

\* try: `if not await tags_get_command.can_run(ctx)` / except CommandError.
TagCheck ==
    /\ At("tag_check")
    /\ IF ~bot.tagsGet
          THEN /\ Raise(Builtin("AttributeError"))
               /\ UNCHANGED effects
          ELSE \E r \in CheckResults, e2 \in Errors :
                 LET v == CanRunValue(TRUE, r)
                     called == Append(effects, Call("tags_get.can_run", 1))
                     logged == Append(called, Log("debug", "tag_checks_failed"))
                 IN  IF v = "raise"
                        THEN /\ effects' = logged
                             /\ Recurse("after_tag_error", e2)
                        ELSE IF ~Truthy(v)
                        THEN /\ effects' = logged
                             /\ Return
                        ELSE /\ effects' = called
                             /\ Goto("display")
    /\ UNCHANGED <<bot, ctx, err, similar, unexpected, marked>>

\* `sent = await tags_cog.display_tag(ctx, command_name)`; return if sent.
DisplayTag ==
    /\ At("display")
    /\ IF ~bot.tagsCog
          THEN /\ Raise(Builtin("AttributeError"))
               /\ UNCHANGED effects
          ELSE \E sent \in BOOLEAN :
                 /\ effects' = Append(effects, Call("display_tag", IF sent THEN 1 ELSE 0))
                 /\ IF sent THEN Return ELSE Goto("match")
    /\ UNCHANGED <<bot, ctx, err, similar, unexpected, marked>>

\* get_close_matches(command_name, raw_commands, 1), its element [0], and
\* bot.get_command on that name (None for a name get_command cannot resolve).
SimilarMatch ==
    /\ At("match")
    /\ \E n \in 0..1 :
          /\ effects' = Append(effects, Call("get_close_matches", n))
          /\ IF n = 0
                THEN /\ Raise(Builtin("IndexError"))
                     /\ UNCHANGED similar
                ELSE /\ \E f \in BOOLEAN, r \in CheckResults :
                           similar' = [found |-> f, canRun |-> IF f THEN r ELSE "none"]
                     /\ Goto("similar_check")
    /\ UNCHANGED <<bot, ctx, err, unexpected, marked>>

\* try: `if not similar_command.can_run(ctx)` / except CommandError.
SimilarCheck ==
    /\ At("similar_check")
    /\ IF ~similar.found
          THEN /\ Raise(Builtin("AttributeError"))
               /\ UNCHANGED effects
          ELSE \E e2 \in Errors :
                 LET v == CanRunValue(FALSE, similar.canRun)
                     called == Append(effects, Call("similar_command.can_run", 0))
                     logged == Append(called, Log("debug", "suggest_checks_failed"))
                 IN  IF v = "raise"
                        THEN /\ effects' = logged
                             /\ Recurse("after_similar_error", e2)
                        ELSE IF ~Truthy(v)
                        THEN /\ effects' = logged
                             /\ Return
                        ELSE /\ effects' = called
                             /\ Goto("suggest")
    /\ UNCHANGED <<bot, ctx, err, similar, unexpected, marked>>

\* Send the "Did you mean:" embed with delete_after=7.0.
Suggest ==
    /\ At("suggest")
    /\ effects' = Append(effects, Send("did_you_mean", 7))
    /\ Return
    /\ UNCHANGED <<bot, ctx, err, similar, unexpected, marked>>

\* The `return` that follows a nested on_command_error call.
AfterRecursion ==
    /\ outcome = "running"
    /\ Len(stack) > 0
    /\ Top.pc \in {"after_tag_error", "after_similar_error"}
    /\ Return
    /\ UNCHANGED <<bot, ctx, err, effects, similar, unexpected, marked>>

\* One of the typed branches of the elif chain that handles the error here.
TypedBranch ==
    /\ At("entry")
    /\ Branch(Top.e, ctx) \notin {"handled", "fallback"}
    /\ ~IsUnexpected(Top.e, ctx)
    /\ effects' = effects \o TypedEffects(Branch(Top.e, ctx), Top.e, ctx)
    /\ Return
    /\ UNCHANGED <<bot, ctx, err, similar, unexpected, marked>>

\* handle_unexpected_error: send, log at error level, raise.
HandleUnexpectedError ==
    /\ At("entry")
    /\ Branch(Top.e, ctx) \notin {"handled", "fallback"}
    /\ IsUnexpected(Top.e, ctx)
    /\ unexpected' = TRUE
    /\ effects' = effects \o UnexpectedEffects
    /\ Raise(UnexpectedTarget(Top.e))
    /\ UNCHANGED <<bot, ctx, err, similar, marked>>

Next ==
    \/ Dispatch
    \/ AlreadyHandled
    \/ FallbackSkipped
    \/ FallbackLookup
    \/ TagCheck
    \/ DisplayTag
    \/ SimilarMatch
    \/ SimilarCheck
    \/ Suggest
    \/ AfterRecursion
    \/ TypedBranch
    \/ HandleUnexpectedError

Spec == Init /\ [][Next]_vars

(***************************************************************************)
(* Properties.                                                             *)
(***************************************************************************)

Done == outcome \in {"returned", "raised"}

Has(kind) == \E i \in 1..Len(effects) : effects[i].kind = kind

Sent(what) ==
    \E i \in 1..Len(effects) : effects[i].kind = "send" /\ effects[i].what = what

\* The Tags cog reported that it sent a tag.
TagSent ==
    \E i \in 1..Len(effects) : effects[i] = Call("display_tag", 1)

\* Whether the context carried the fallback marker when it was dispatched.
MarkerAtDispatch == ctx.marker /\ ~marked

\* A message, a log entry or an exception reached the outside.
Observable == Has("send") \/ Has("log") \/ TagSent \/ outcome = "raised"

\* C1: on_command_error raises to its caller only when control has reached
\* handle_unexpected_error; on every other path it returns normally.
C1_RaisesOnlyViaUnexpected ==
    outcome = "raised" => unexpected

\* C2: the "Did you mean" suggestion is sent only if the matched command's
\* permission check returns true.
C2_SuggestionOnlyIfPermitted ==
    Sent("did_you_mean") => similar.canRun = "true"

SilentFallback ==
    /\ err.cls = "CommandNotFound"
    /\ ~MarkerAtDispatch
    /\ \/ ctx.channel = "verification"
       \/ ~bot.tagsCog /\ ~bot.tagsGet

C5_RecursionDepthOne ==
    /\ Len(stack) <= 2
    /\ Len(stack) = 2 =>
          /\ stack[1].pc \in {"after_tag_error", "after_similar_error"}
          /\ stack[2].pc = "entry"
          /\ ctx.marker
          /\ Branch(stack[2].e, ctx) # "fallback"

C5_Witness ==
    /\ Len(stack) = 2
    /\ stack[2].e.cls = "CommandNotFound"
    /\ ~stack[2].e.handled

\* The effects C6 names for a status.
C6_Expected(s) ==
    IF s = 404 THEN <<Send("nothing_matching_query", 0)>>
    ELSE IF s = 400 THEN
        <<Log("debug", "api_400_body"), Send("request_malformed", 0)>>
    ELSE IF s \in 500..599 THEN
        <<Send("api_internal_issue", 0), Log("warning", "api_status")>>
    ELSE <<Send("unexpected_status_code", s), Log("warning", "unexpected_api_response")>>

C7_UnexpectedSendLogRaise ==
    /\ (Done /\ ~err.handled
             /\ \/ err.cls = "Other"
                \/ err.cls = "CommandNotFound" /\ MarkerAtDispatch
                \/ err.cls = "CommandInvokeError" /\ err.orig # "ResponseCodeError") =>
          /\ unexpected
          /\ effects = <<Send("unexpected_error", 0), Log("error", "error_executing_command")>>
          /\ outcome = "raised"
          /\ raised = IF err.cls = "CommandInvokeError"
                         THEN MkError(err.orig, FALSE, "none", err.status)
                         ELSE err
    /\ unexpected =>
          /\ outcome = "raised"
          /\ Len(effects) >= 2
          /\ effects[Len(effects) - 1] = Send("unexpected_error", 0)
          /\ effects[Len(effects)] = Log("error", "error_executing_command")

C7_Witness ==
    /\ outcome = "raised"
    /\ unexpected
    /\ err.cls = "CommandInvokeError"
    /\ raised.cls = "RuntimeError"

\* C8: a CommandNotFound on a context in the verification channel never
\* triggers the fallback: the context is not marked, no permission check is
\* run, the Tags cog is not asked for a tag, no fuzzy match is computed and
\* no suggestion is sent.
C8_VerificationNoFallback ==
    (err.cls = "CommandNotFound" /\ ctx.channel = "verification") =>
        /\ ~marked
        /\ ~Has("call")
        /\ ~Sent("did_you_mean")
        /\ \A i \in 1..Len(stack) :
              stack[i].pc \notin {"tag_check", "display", "match", "similar_check", "suggest"}

C8_Witness ==
    /\ outcome = "returned"
    /\ err.cls = "CommandNotFound"
    /\ ~err.handled
    /\ ctx.channel = "verification"
    /\ ~ctx.marker
    /\ bot.tagsCog /\ bot.tagsGet
    /\ effects = <<>>

\* C9: the handler goes past the collaborator lookup (marks the context,
\* runs the tag-get check, asks for a tag) only when both the Tags cog and
\* the "tags get" command exist.
C9_BothCollaboratorsRequired ==
    marked => (bot.tagsCog /\ bot.tagsGet)

\* C10: first match wins.  InChannelCheckFailure sends the error's text and
\* is never log-only; BadArgument sends "Bad argument" and then invokes help;
\* NoPrivateMessage, BotMissingPermissions and MissingPermissions take their
\* own branches; the effects of exactly one branch occur.
C10_FirstMatchWins ==
    (Done /\ ~err.handled) =>
        /\ err.cls = "InChannelCheckFailure" =>
              effects = <<Send("error_text", 0)>> /\ outcome = "returned"
        /\ err.cls = "BadArgument" =>
              /\ Len(effects) = 2
              /\ effects[1] = Send("bad_argument", 0)
              /\ effects[2].kind = "invoke"
              /\ outcome = "returned"
        /\ err.cls = "NoPrivateMessage" =>
              effects = <<Send("no_private_message", 0)>> /\ outcome = "returned"
        /\ err.cls = "BotMissingPermissions" =>
              /\ effects = <<Send("bot_missing_permissions", 0),
                             Log("warning", "bot_missing_permissions")>>
              /\ outcome = "returned"
        /\ err.cls = "MissingPermissions" =>
              effects = <<Log("debug", "missing_permissions")>> /\ outcome = "returned"

C10_Witness ==
    /\ outcome = "returned"
    /\ ~err.handled
    /\ err.cls = "InChannelCheckFailure"
    /\ effects = <<Send("error_text", 0)>>

====
